---- MODULE Spec2Model ----
(***************************************************************************)
(* A model of depbank (src/src/lib.rs): manifest discovery, dependency     *)
(* collection and extraction, lockfile lookup and resolution, the          *)
(* DependencyCollection container, the registry path functions, code bank  *)
(* generation and token statistics.  Each component has its own            *)
(* specification (SpecScan, SpecColl, SpecExtract, SpecResolve, SpecFind,  *)
(* SpecRegistry, SpecAvail, SpecPaths, SpecBank, SpecTokens, SpecCollect); *)
(* a specification leaves the variables of the other components at their   *)
(* idle values.                                                            *)
(***************************************************************************)
EXTENDS Integers, Sequences, FiniteSets, TLC

VARIABLES
    rootKind,     \* what root_dir is on disk: "absent", "file" or "dir"
    tree,         \* the directory tree under root_dir: node -> [parent, name, dir]
    scanPc,       \* position of find_cargo_toml_files: "start", "walk", "done"
    stack,        \* call stack of find_cargo_toml_files_recursive: frames [dir, rest]
    found,        \* cargo_toml_files, the Vec<PathBuf> being filled
    reads,        \* directories handed to fs::read_dir so far, in call order
    scanResult,   \* the Result returned by find_cargo_toml_files
    ioFailed,     \* Option of the directory whose reading failed during the scan
    deps,         \* DependencyCollection.deps
    addLog,       \* the arguments of the add calls made so far, in call order
    mapped,       \* Option of the last to_map call: [src, map]
    rebuilt,      \* Option of the last from_map call: [src, map, coll]
    looked,       \* Option of the last lookup by name: what get, get_version,
                  \* contains_name and to_map returned; the references borrow the
                  \* collection and are gone before the next add
    manifest,     \* the Cargo.toml file handed to extract_dependency_info
    extracted,    \* the Result returned by extract_dependency_info
    lockfile,     \* the Cargo.lock file handed to resolve_dependency_versions
    request,      \* the DependencyCollection handed to resolve_dependency_versions
    resolved,     \* the Result returned by resolve_dependency_versions
    lockOps,      \* what resolve_dependency_versions did with the lockfile path, in order
    lockAt,       \* level of the directory chain -> whether it holds a Cargo.lock
    cwd,          \* level of the process's working directory
    startDir,     \* the path handed to find_cargo_lock
    findPc,       \* position of find_cargo_lock: "first", "parents", "done"
    currentDir,   \* current_dir, a lexical path
    probes,       \* the paths whose existence was tested so far, in order
    lockResult,   \* the Result returned by find_cargo_lock
    home,         \* whether dirs::home_dir() knows a home directory
    registry,     \* ~/.cargo/registry/src on disk: [status, entries in read_dir order]
    crateKind,    \* "{name}-{version}" -> what it is inside the directory index-1
    regResult,    \* the Result returned by resolve_registry_path
    basePath,     \* the registry base path handed to a call
    availDep,     \* the Dependency handed to a call
    available,    \* what is_dependency_available returned
    constructed,  \* Option of the paths the two path constructors returned
    pathsInput,   \* the name -> version map handed to resolve_dependency_paths
    pathsResult,  \* the Result returned by resolve_dependency_paths
    bankDeps,     \* the DependencyCollection handed to generate_all_code_banks
    outputDirExists, \* whether output_dir exists on disk
    bankPc,       \* position of generate_all_code_banks: "loop" or "done"
    bankPos,      \* index of the next dependency of the loop
    codeBankFiles, \* code_bank_files, the HashMap being filled
    errors,       \* errors, the Vec of warnings being filled
    bankLog,      \* what happened to each dependency processed so far, in order
    written,      \* the output files written so far
    bankResult,   \* the Result returned by generate_all_code_banks
    tokDir,       \* the directory handed to calculate_directory_tokens: [status, entries]
    tokFilter,    \* the extension argument, an Option
    tokResult,    \* the Result returned by calculate_directory_tokens
    manifestFiles, \* the Cargo.toml files handed to collect_dependencies, in order
    gathered      \* the Result returned by collect_dependencies

scanVars == <<rootKind, tree, scanPc, stack, found, reads, scanResult, ioFailed>>
collVars == <<deps, addLog, mapped, rebuilt, looked>>
extractVars == <<manifest, extracted>>
resolveVars == <<lockfile, request, resolved, lockOps>>
findVars == <<lockAt, cwd, startDir, findPc, currentDir, probes, lockResult>>
coreVars == <<scanVars, collVars, extractVars, resolveVars>>
regEnv == <<home, registry, crateKind>>
availVars == <<basePath, availDep, available, constructed>>
pathsVars == <<pathsInput, pathsResult>>
regVars == <<regEnv, regResult, availVars, pathsVars>>
bankVars == <<bankDeps, outputDirExists, bankPc, bankPos, codeBankFiles, errors, bankLog,
              written, bankResult>>
fsVars == <<findVars, regVars, bankVars>>
tokVars == <<tokDir, tokFilter, tokResult>>
gatherVars == <<manifestFiles, gathered>>
moreVars == <<tokVars, gatherVars>>
vars == <<coreVars, fsVars, moreVars>>

(***************************************************************************)
(* Bounds of the model.                                                    *)
(***************************************************************************)
MaxNodes == 3

MaxDeps == 3

MaxEntries == 2

MaxLock == 3

MaxRequest == 2

MaxDepth == 3

MaxRegEntries == 3

MaxMtime == 2

MaxBank == 2

MaxFiles == 3

MaxManifests == 2

(***************************************************************************)
(* Option<T> is a sequence of length at most one; Result<T> is a record.   *)
(***************************************************************************)
None == <<>>

Some(x) == <<x>>

IsSome(o) == o /= <<>>

UnwrapOr(o, d) == IF o = <<>> THEN d ELSE o[1]

Pending == [tag |-> "pending"]

Err(kind) == [tag |-> "Err", kind |-> kind]

Ok(v) == [tag |-> "Ok", value |-> v]

\* An error whose message names a path.
ErrAt(kind, path) == [tag |-> "Err", kind |-> kind, path |-> path]

RECURSIVE SetToSortedSeq(_)
SetToSortedSeq(S) ==
    IF S = {} THEN <<>>
    ELSE LET m == CHOOSE x \in S : \A y \in S : x <= y
         IN <<m>> \o SetToSortedSeq(S \ {m})

Range(s) == { s[i] : i \in DOMAIN s }

(***************************************************************************)
(* File names are OsStr values: sequences of bytes, not all valid UTF-8.   *)
(***************************************************************************)
CargoTomlName == <<67, 97, 114, 103, 111, 46, 116, 111, 109, 108>>  \* "Cargo.toml"

DotGit == <<46, 103, 105, 116>>                                      \* ".git"

SubName == <<115, 117, 98>>                                          \* "sub"

DotRaw == <<46, 255>>                                                \* '.' then byte 0xFF

FileNames == {CargoTomlName, DotGit, SubName, DotRaw}

\* OsStr::to_str: Some(text) when the bytes are valid UTF-8, None otherwise.
\* Over the bytes of FileNames (ASCII and 0xFF) validity is "every byte is ASCII".
ToStr(name) == IF \A i \in DOMAIN name : name[i] < 128 THEN Some(name) ELSE None

\* str::starts_with('.')
StartsWithDot(text) == Len(text) > 0 /\ text[1] = 46

\* The name begins with the byte '.', whatever follows it.
NameStartsWithDot(name) == Len(name) > 0 /\ name[1] = 46

(***************************************************************************)
(* The directory tree. Node 0 is root_dir; node i > 0 is an entry of its   *)
(* parent directory. fs::read_dir yields a directory's entries in an order *)
(* the file system chooses: here the order of the node numbers, which the  *)
(* choice of the tree makes independent of the names.                      *)
(***************************************************************************)
NodeRecs == [parent : 0..(MaxNodes - 1), name : FileNames, dir : BOOLEAN]

WellFormedTree(t) ==
    \A i \in DOMAIN t :
        /\ t[i].parent < i
        /\ t[i].parent /= 0 => t[t[i].parent].dir
        /\ \A j \in DOMAIN t : (j /= i /\ t[j].parent = t[i].parent) => t[j].name /= t[i].name

Trees == UNION { { t \in [1..n -> NodeRecs] : WellFormedTree(t) } : n \in 0..MaxNodes }

IsDir(n) == IF n = 0 THEN rootKind = "dir" ELSE tree[n].dir

Children(d) == SetToSortedSeq({ i \in DOMAIN tree : tree[i].parent = d })

\* The ancestors of node n strictly between root_dir and n.
RECURSIVE AncestorsBelowRoot(_)
AncestorsBelowRoot(n) ==
    IF n = 0 \/ tree[n].parent = 0 THEN {}
    ELSE {tree[n].parent} \cup AncestorsBelowRoot(tree[n].parent)

(***************************************************************************)
(* find_cargo_toml_files and find_cargo_toml_files_recursive.              *)
(***************************************************************************)
\* lib.rs 288-293: the entry is skipped when its name, as text, starts with '.'
\* and the entry is a directory; a name that is not valid UTF-8 is not skipped.
IsSkippedHidden(n) ==
    /\ UnwrapOr(IF IsSome(ToStr(tree[n].name))
                THEN Some(StartsWithDot(ToStr(tree[n].name)[1]))
                ELSE None, FALSE)
    /\ IsDir(n)

\* lib.rs 299
IsCargoToml(n) == tree[n].name = CargoTomlName

ScanFail(kind, at) ==
    /\ scanPc' = "done"
    /\ scanResult' = ErrAt(kind, at)
    /\ stack' = <<>>
    /\ found' = <<>>

\* A plausible bug of the entry: the two checks of root_dir are left out, and
\* the first read_dir meets what root_dir is.
ScanStartUnchecked ==
    /\ scanPc = "start"
    /\ UNCHANGED <<rootKind, tree>>
    /\ reads' = Append(reads, 0)
    /\ \E readOk \in (IF rootKind = "dir" THEN BOOLEAN ELSE {FALSE}) :
         IF readOk
         THEN /\ scanPc' = "walk"
              /\ stack' = <<[dir |-> 0, rest |-> Children(0)]>>
              /\ UNCHANGED <<found, scanResult, ioFailed>>
         ELSE ScanFail("ReadDir", 0) /\ ioFailed' = Some(0)

\* lib.rs 251-272: the two precondition checks, then the first read_dir.
ScanStart ==
    /\ scanPc = "start"
    /\ UNCHANGED <<rootKind, tree>>
    /\ IF rootKind = "absent" THEN ScanFail("NotFound", 0) /\ UNCHANGED <<reads, ioFailed>>
       ELSE IF rootKind /= "dir"
       THEN ScanFail("NotADirectory", 0) /\ UNCHANGED <<reads, ioFailed>>
       ELSE /\ reads' = Append(reads, 0)
            /\ \E readOk \in BOOLEAN :
                 IF readOk
                 THEN /\ scanPc' = "walk"
                      /\ stack' = <<[dir |-> 0, rest |-> Children(0)]>>
                      /\ UNCHANGED <<found, scanResult, ioFailed>>
                 ELSE ScanFail("ReadDir", 0) /\ ioFailed' = Some(0)

\* A plausible bug of the walk: a directory that cannot be read is passed over
\* and the walk goes on.
ScanEntryTolerant ==
    /\ scanPc = "walk"
    /\ stack /= <<>>
    /\ stack[Len(stack)].rest /= <<>>
    /\ UNCHANGED <<rootKind, tree>>
    /\ LET top == stack[Len(stack)]
           e == Head(top.rest)
           popped == [stack EXCEPT ![Len(stack)].rest = Tail(top.rest)]
           pushed == IF IsCargoToml(e) THEN Append(found, e) ELSE found
       IN \E entryOk \in BOOLEAN :
            IF ~entryOk
            THEN ScanFail("ReadEntry", top.dir) /\ ioFailed' = Some(top.dir) /\ UNCHANGED reads
            ELSE IF IsSkippedHidden(e)
            THEN /\ stack' = popped
                 /\ UNCHANGED <<scanPc, found, reads, scanResult, ioFailed>>
            ELSE IF IsDir(e)
            THEN /\ reads' = Append(reads, e)
                 /\ \E readOk \in BOOLEAN :
                      IF readOk
                      THEN /\ stack' = Append(popped, [dir |-> e, rest |-> Children(e)])
                           /\ found' = pushed
                           /\ UNCHANGED <<scanPc, scanResult, ioFailed>>
                      ELSE /\ stack' = popped
                           /\ found' = pushed
                           /\ ioFailed' = Some(e)
                           /\ UNCHANGED <<scanPc, scanResult>>
            ELSE /\ stack' = popped
                 /\ found' = pushed
                 /\ UNCHANGED <<scanPc, reads, scanResult, ioFailed>>

\* lib.rs 280-307: one iteration of the for loop of the innermost call.
ScanEntry ==
    /\ scanPc = "walk"
    /\ stack /= <<>>
    /\ stack[Len(stack)].rest /= <<>>
    /\ UNCHANGED <<rootKind, tree>>
    /\ LET top == stack[Len(stack)]
           e == Head(top.rest)
           popped == [stack EXCEPT ![Len(stack)].rest = Tail(top.rest)]
           pushed == IF IsCargoToml(e) THEN Append(found, e) ELSE found
       IN \E entryOk \in BOOLEAN :
            IF ~entryOk
            THEN ScanFail("ReadEntry", top.dir) /\ ioFailed' = Some(top.dir) /\ UNCHANGED reads
            ELSE IF IsSkippedHidden(e)
            THEN /\ stack' = popped
                 /\ UNCHANGED <<scanPc, found, reads, scanResult, ioFailed>>
            ELSE IF IsDir(e)
            THEN /\ reads' = Append(reads, e)
                 /\ \E readOk \in BOOLEAN :
                      IF readOk
                      THEN /\ stack' = Append(popped, [dir |-> e, rest |-> Children(e)])
                           /\ found' = pushed
                           /\ UNCHANGED <<scanPc, scanResult, ioFailed>>
                      ELSE ScanFail("ReadDir", e) /\ ioFailed' = Some(e)
            ELSE /\ stack' = popped
                 /\ found' = pushed
                 /\ UNCHANGED <<scanPc, reads, scanResult, ioFailed>>

\* lib.rs 309, 274: the innermost call has no entry left and returns Ok(());
\* when it was the outermost call, find_cargo_toml_files returns Ok(files).
\* A plausible bug of the return: the list is sorted before it is returned.
ScanReturnSorted ==
    /\ scanPc = "walk"
    /\ stack /= <<>>
    /\ stack[Len(stack)].rest = <<>>
    /\ UNCHANGED <<rootKind, tree, found, reads, ioFailed>>
    /\ stack' = SubSeq(stack, 1, Len(stack) - 1)
    /\ IF Len(stack) = 1
       THEN scanPc' = "done" /\ scanResult' = Ok(SetToSortedSeq(Range(found)))
       ELSE UNCHANGED <<scanPc, scanResult>>

\* A plausible bug of the return: the outermost call ends without a result.
ScanReturnNoResult ==
    /\ scanPc = "walk"
    /\ stack /= <<>>
    /\ stack[Len(stack)].rest = <<>>
    /\ UNCHANGED <<rootKind, tree, found, reads, ioFailed, scanPc, scanResult>>
    /\ stack' = SubSeq(stack, 1, Len(stack) - 1)

ScanReturn ==
    /\ scanPc = "walk"
    /\ stack /= <<>>
    /\ stack[Len(stack)].rest = <<>>
    /\ UNCHANGED <<rootKind, tree, found, reads, ioFailed>>
    /\ stack' = SubSeq(stack, 1, Len(stack) - 1)
    /\ IF Len(stack) = 1
       THEN scanPc' = "done" /\ scanResult' = Ok(found)
       ELSE UNCHANGED <<scanPc, scanResult>>

(***************************************************************************)
(* Dependency and DependencyCollection.                                    *)
(***************************************************************************)
DepNames == {"anyhow", "serde"}

ReqVersions == {"1.0", "workspace", "*"}

\* lib.rs 106-111
DependencyNew(name, version) == [name |-> name, version |-> version]

\* The arguments of Dependency::new: any two strings, the empty name included.
DependencyPool ==
    { DependencyNew(n, v) : n \in DepNames, v \in ReqVersions } \cup { DependencyNew("", "1.0") }

\* A plausible bug of add: an entry whose name is already held replaces it.
CollectionAddReplacing(c, dep) ==
    IF \E i \in DOMAIN c : c[i].name = dep.name
    THEN [i \in DOMAIN c |-> IF c[i].name = dep.name THEN dep ELSE c[i]]
    ELSE Append(c, dep)

\* lib.rs 139-141: self.deps.push(dep)
CollectionAdd(c, dep) == Append(c, dep)

\* HashMap::insert: the key's old value, if any, is replaced.
MapInsert(m, k, v) == [x \in (DOMAIN m) \cup {k} |-> IF x = k THEN v ELSE m[x]]

\* A plausible bug of to_map: the first entry of a name is kept.
RECURSIVE ToMapFirstWins(_)
ToMapFirstWins(c) ==
    IF c = <<>> THEN <<>>
    ELSE LET m == ToMapFirstWins(SubSeq(c, 1, Len(c) - 1))
             d == c[Len(c)]
         IN IF d.name \in DOMAIN m THEN m ELSE MapInsert(m, d.name, d.version)

\* lib.rs 169-174: the (name, version) pairs, in order, collected into a HashMap.
RECURSIVE ToMap(_)
ToMap(c) ==
    IF c = <<>> THEN <<>>
    ELSE LET d == c[Len(c)]
         IN MapInsert(ToMap(SubSeq(c, 1, Len(c) - 1)), d.name, d.version)

\* The orders in which a HashMap of the given keys may be iterated.
IterationOrders(keys) ==
    { o \in [1..Cardinality(keys) -> keys] : \A i, j \in DOMAIN o : o[i] = o[j] => i = j }

\* A plausible bug of from_map: the arguments of Dependency::new are exchanged.
RECURSIVE FromMapSwapped(_, _)
FromMapSwapped(m, order) ==
    IF order = <<>> THEN <<>>
    ELSE CollectionAdd(FromMapSwapped(m, SubSeq(order, 1, Len(order) - 1)),
                       DependencyNew(m[order[Len(order)]], order[Len(order)]))

\* lib.rs 177-183: one add per (name, version) of the map, in the order the
\* HashMap yields its entries.
RECURSIVE FromMap(_, _)
FromMap(m, order) ==
    IF order = <<>> THEN <<>>
    ELSE CollectionAdd(FromMap(m, SubSeq(order, 1, Len(order) - 1)),
                       DependencyNew(order[Len(order)], m[order[Len(order)]]))

\* A call of add on the collection.
Add(dep) ==
    /\ Len(deps) < MaxDeps
    /\ deps' = CollectionAdd(deps, dep)
    /\ addLog' = Append(addLog, dep)
    /\ looked' = None
    /\ UNCHANGED <<mapped, rebuilt>>

\* A call of to_map on the collection; the collection is only borrowed.
CallToMap ==
    /\ mapped' = Some([src |-> deps, map |-> ToMap(deps)])
    /\ UNCHANGED <<deps, addLog, rebuilt, looked>>

\* A call of from_map on the map the last to_map call returned.
CallFromMap ==
    /\ IsSome(mapped)
    /\ \E order \in IterationOrders(DOMAIN mapped[1].map) :
         rebuilt' = Some([src |-> mapped[1].src, map |-> mapped[1].map,
                          coll |-> FromMap(mapped[1].map, order)])
    /\ UNCHANGED <<deps, addLog, mapped, looked>>

\* A plausible bug of get: the latest entry of the name is returned.
GetLast(c, name) ==
    LET at == { i \in DOMAIN c : c[i].name = name }
    IN IF at = {} THEN None ELSE Some(c[CHOOSE i \in at : \A j \in at : j <= i])

\* lib.rs 159-161: self.deps.iter().find(|dep| dep.name == name)
Get(c, name) ==
    LET at == { i \in DOMAIN c : c[i].name = name }
    IN IF at = {} THEN None ELSE Some(c[CHOOSE i \in at : \A j \in at : i <= j])

\* lib.rs 164-166: self.get(name).map(|dep| &dep.version)
GetVersion(c, name) == IF IsSome(Get(c, name)) THEN Some(Get(c, name)[1].version) ELSE None

\* lib.rs 186-188: self.deps.iter().any(|dep| dep.name == name)
ContainsName(c, name) == \E i \in DOMAIN c : c[i].name = name

\* The names looked up: those of the pool and one that no entry has.
LookupNames == DepNames \cup {"", "tokio"}

\* Calls of get, get_version, contains_name and to_map on the collection.
CallLookup(name) ==
    /\ looked' = Some([src |-> deps, name |-> name,
                       get |-> Get(deps, name),
                       get_version |-> GetVersion(deps, name),
                       contains_name |-> ContainsName(deps, name),
                       to_map |-> ToMap(deps)])
    /\ UNCHANGED <<deps, addLog, mapped, rebuilt>>

(***************************************************************************)
(* Cargo.toml: CargoDepSpec, CargoToml and extract_dependency_info.        *)
(***************************************************************************)
\* toml::Value, as far as extraction looks at it: the kind and the text.
TomlBoolean(b) == [kind |-> "Boolean", val |-> IF b THEN "true" ELSE "false"]

TomlString(text) == [kind |-> "String", val |-> text]

TomlInteger(text) == [kind |-> "Integer", val |-> text]

\* toml::Value::as_bool
AsBool(v) == IF v.kind = "Boolean" THEN Some(v.val = "true") ELSE None

\* toml::Value::as_str
AsStr(v) == IF v.kind = "String" THEN Some(v.val) ELSE None

\* HashMap::get
MapGet(m, k) == IF k \in DOMAIN m THEN Some(m[k]) ELSE None

\* lib.rs 315-318
Simple(version) == [tag |-> "Simple", version |-> version]

Detailed(table) == [tag |-> "Detailed", table |-> table]

\* The values a key of a structured entry takes in the manifests of the model.
FieldValues(key) ==
    IF key = "workspace"
    THEN {TomlBoolean(TRUE), TomlBoolean(FALSE), TomlString("true")}
    ELSE IF key = "version"
    THEN {TomlString("2.0"), TomlInteger("2")}
    ELSE {TomlString("../core")}

FieldKeys == {"workspace", "version", "path"}

AllFieldValues == UNION { FieldValues(k) : k \in FieldKeys }

DetailedTables ==
    UNION { { t \in [K -> AllFieldValues] : \A k \in K : t[k] \in FieldValues(k) } :
            K \in SUBSET FieldKeys }

DepSpecs == { Simple(v) : v \in {"1.0", "*"} } \cup { Detailed(t) : t \in DetailedTables }

\* A plausible bug: the version field is looked at before the workspace flag.
ExtractVersionVersionFirst(spec) ==
    IF spec.tag = "Simple" THEN spec.version
    ELSE IF IsSome(MapGet(spec.table, "version"))
            /\ IsSome(AsStr(MapGet(spec.table, "version")[1]))
    THEN AsStr(MapGet(spec.table, "version")[1])[1]
    ELSE IF IsSome(MapGet(spec.table, "workspace"))
            /\ UnwrapOr(AsBool(MapGet(spec.table, "workspace")[1]), FALSE)
    THEN "workspace"
    ELSE "*"

\* A plausible bug: a structured entry with nothing usable yields the empty text.
ExtractVersionEmptyDefault(spec) ==
    IF spec.tag = "Simple" THEN spec.version
    ELSE IF IsSome(MapGet(spec.table, "workspace"))
            /\ UnwrapOr(AsBool(MapGet(spec.table, "workspace")[1]), FALSE)
    THEN "workspace"
    ELSE IF IsSome(MapGet(spec.table, "version"))
            /\ IsSome(AsStr(MapGet(spec.table, "version")[1]))
    THEN AsStr(MapGet(spec.table, "version")[1])[1]
    ELSE ""

\* A plausible bug: the presence of the workspace key is taken for the flag.
ExtractVersionKeyPresence(spec) ==
    IF spec.tag = "Simple" THEN spec.version
    ELSE IF IsSome(MapGet(spec.table, "workspace"))
    THEN "workspace"
    ELSE IF IsSome(MapGet(spec.table, "version"))
            /\ IsSome(AsStr(MapGet(spec.table, "version")[1]))
    THEN AsStr(MapGet(spec.table, "version")[1])[1]
    ELSE "*"

\* lib.rs 448-471
ExtractVersionFromSpec(spec) ==
    IF spec.tag = "Simple" THEN spec.version
    ELSE IF IsSome(MapGet(spec.table, "workspace"))
            /\ UnwrapOr(AsBool(MapGet(spec.table, "workspace")[1]), FALSE)
    THEN "workspace"
    ELSE IF IsSome(MapGet(spec.table, "version"))
            /\ IsSome(AsStr(MapGet(spec.table, "version")[1]))
    THEN AsStr(MapGet(spec.table, "version")[1])[1]
    ELSE "*"

\* The three tables extraction reads, by their names in the file.
TableNames == {"dependencies", "dev-dependencies", "build-dependencies"}

EmptyTable == [n \in {} |-> Simple("*")]

\* The manifest files of the model: at most MaxEntries entries over the three
\* tables; a table without entries is either written empty or left out.
Slots == TableNames \X DepNames

SlotAssignments ==
    UNION { [S -> DepSpecs] : S \in { T \in SUBSET Slots : Cardinality(T) <= MaxEntries } }

UsedTables(f) == { slot[1] : slot \in DOMAIN f }

MakeManifest(f, present) ==
    [status |-> "ok",
     sections |-> [t \in present |->
                      [n \in { m \in DepNames : <<t, m>> \in DOMAIN f } |-> f[<<t, n>>]]]]

BrokenManifest(status) == [status |-> status, sections |-> [t \in {} |-> EmptyTable]]

\* fs::read_to_string
ReadToString(file) == IF file.status = "unreadable" THEN Err("Read") ELSE Ok(file)

\* A plausible bug: a manifest that leaves a table out is rejected.
ParseCargoTomlStrict(file) ==
    IF file.status = "malformed" \/ DOMAIN file.sections /= TableNames THEN Err("Parse")
    ELSE Ok([dependencies |-> file.sections["dependencies"],
             dev_dependencies |-> file.sections["dev-dependencies"],
             build_dependencies |-> file.sections["build-dependencies"]])

\* lib.rs 321-331, 419: toml::from_str into CargoToml; #[serde(default)] gives
\* a table that the file leaves out the empty HashMap.
ParseCargoToml(file) ==
    IF file.status = "malformed" THEN Err("Parse")
    ELSE LET section(t) == UnwrapOr(MapGet(file.sections, t), EmptyTable)
         IN Ok([dependencies |-> section("dependencies"),
                dev_dependencies |-> section("dev-dependencies"),
                build_dependencies |-> section("build-dependencies")])

\* lib.rs 427-430: one for loop over a table, in the order the HashMap yields.
RECURSIVE AddTable(_, _, _)
AddTable(c, table, order) ==
    IF order = <<>> THEN c
    ELSE AddTable(CollectionAdd(c, DependencyNew(Head(order),
                                                 ExtractVersionFromSpec(table[Head(order)]))),
                  table, Tail(order))

\* A plausible bug: the dev table is processed before the runtime table.
ExtractDevTableFirst ==
    /\ extracted = Pending
    /\ UNCHANGED manifest
    /\ IF ReadToString(manifest).tag = "Err"
       THEN extracted' = ReadToString(manifest)
       ELSE IF ParseCargoToml(manifest).tag = "Err"
       THEN extracted' = ParseCargoToml(manifest)
       ELSE LET cargo_toml == ParseCargoToml(manifest).value
            IN \E o1 \in IterationOrders(DOMAIN cargo_toml.dependencies),
                  o2 \in IterationOrders(DOMAIN cargo_toml.dev_dependencies),
                  o3 \in IterationOrders(DOMAIN cargo_toml.build_dependencies) :
                 extracted' =
                     Ok(AddTable(AddTable(AddTable(<<>>, cargo_toml.dev_dependencies, o2),
                                          cargo_toml.dependencies, o1),
                                 cargo_toml.build_dependencies, o3))

\* lib.rs 408-445
ExtractDependencyInfo ==
    /\ extracted = Pending
    /\ UNCHANGED manifest
    /\ IF ReadToString(manifest).tag = "Err"
       THEN extracted' = ReadToString(manifest)
       ELSE IF ParseCargoToml(manifest).tag = "Err"
       THEN extracted' = ParseCargoToml(manifest)
       ELSE LET cargo_toml == ParseCargoToml(manifest).value
            IN \E o1 \in IterationOrders(DOMAIN cargo_toml.dependencies),
                  o2 \in IterationOrders(DOMAIN cargo_toml.dev_dependencies),
                  o3 \in IterationOrders(DOMAIN cargo_toml.build_dependencies) :
                 extracted' =
                     Ok(AddTable(AddTable(AddTable(<<>>, cargo_toml.dependencies, o1),
                                          cargo_toml.dev_dependencies, o2),
                                 cargo_toml.build_dependencies, o3))

(***************************************************************************)
(* Cargo.lock and resolve_dependency_versions.                             *)
(***************************************************************************)
LockVersions == {"1.0.68", "1.0.75"}

\* lib.rs 475-480; source is read and never used.
CargoLockPackage(name, version) == [name |-> name, version |-> version]

LockPackages == { CargoLockPackage(n, v) : n \in DepNames, v \in LockVersions }

SeqsUpTo(S, max) == UNION { [1..n -> S] : n \in 0..max }

\* The Cargo.lock files of the model: the [[package]] records in file order.
LockFile(packages) == [status |-> "ok", package |-> packages]

BrokenLockFile(status) == [status |-> status, package |-> <<>>]

\* The requests of the model: what extraction can return for the names.
RequestPool == { DependencyNew(n, v) : n \in DepNames, v \in ReqVersions }

\* Semantic-version order of the locked versions of the model.
SemverLess(v, w) == v = "1.0.68" /\ w = "1.0.75"

\* HashMap::entry(name).or_default().push(version)
IndexPush(index, name, version) ==
    [x \in (DOMAIN index) \cup {name} |->
        IF x = name
        THEN (IF name \in DOMAIN index THEN Append(index[name], version) ELSE <<version>>)
        ELSE index[x]]

\* lib.rs 559-567: package_versions, name -> the locked versions in file order.
RECURSIVE PackageVersions(_)
PackageVersions(packages) ==
    IF packages = <<>> THEN [x \in {} |-> <<>>]
    ELSE LET p == packages[Len(packages)]
         IN IndexPush(PackageVersions(SubSeq(packages, 1, Len(packages) - 1)),
                      p.name, p.version)

\* Vec::last
Last(versions) == IF versions = <<>> THEN None ELSE Some(versions[Len(versions)])

\* A plausible bug: the semantically greatest locked version is taken.
GreatestVersion(versions) ==
    IF versions = <<>> THEN None
    ELSE Some(CHOOSE v \in Range(versions) : \A w \in Range(versions) : ~SemverLess(v, w))

\* lib.rs 574: versions.last()
PickVersion(versions) == Last(versions)

\* A plausible bug: a requested name that is not locked is returned as it was asked.
ResolveOneKeepingUnmatched(c, index, dep) ==
    IF IsSome(MapGet(index, dep.name)) /\ IsSome(PickVersion(MapGet(index, dep.name)[1]))
    THEN CollectionAdd(c, DependencyNew(dep.name, PickVersion(MapGet(index, dep.name)[1])[1]))
    ELSE CollectionAdd(c, dep)

\* A plausible bug: a dependency that inherits its version from the workspace
\* is left out of the result.
ResolveOneSkippingWorkspace(c, index, dep) ==
    IF /\ dep.version /= "workspace"
       /\ IsSome(MapGet(index, dep.name)) /\ IsSome(PickVersion(MapGet(index, dep.name)[1]))
    THEN CollectionAdd(c, DependencyNew(dep.name, PickVersion(MapGet(index, dep.name)[1])[1]))
    ELSE c

\* lib.rs 571-577: the body of the loop over the requested dependencies.
ResolveOne(c, index, dep) ==
    IF IsSome(MapGet(index, dep.name)) /\ IsSome(PickVersion(MapGet(index, dep.name)[1]))
    THEN CollectionAdd(c, DependencyNew(dep.name, PickVersion(MapGet(index, dep.name)[1])[1]))
    ELSE c

\* lib.rs 570-578: the loop over dependencies.as_slice().
RECURSIVE ResolveAll(_, _)
ResolveAll(index, requested) ==
    IF requested = <<>> THEN <<>>
    ELSE ResolveOne(ResolveAll(index, SubSeq(requested, 1, Len(requested) - 1)),
                    index, requested[Len(requested)])

\* lib.rs 535-555: the operations on the lockfile path, in program order.
LockOpsOf(lock) ==
    IF lock.status = "absent" THEN <<"exists">>
    ELSE IF lock.status = "unreadable" THEN <<"exists", "read">>
    ELSE <<"exists", "read", "parse">>

\* A plausible bug: a lockfile that is missing, unreadable or malformed is
\* taken as one without packages.
ResolveDependencyVersionsLenient ==
    /\ resolved = Pending
    /\ UNCHANGED <<lockfile, request>>
    /\ lockOps' = LockOpsOf(lockfile)
    /\ resolved' = Ok(ResolveAll(PackageVersions(lockfile.package), request))

\* lib.rs 528-581: a call of resolve_dependency_versions.
ResolveDependencyVersions ==
    /\ resolved = Pending
    /\ UNCHANGED <<lockfile, request>>
    /\ lockOps' = LockOpsOf(lockfile)
    /\ resolved' =
         IF lockfile.status = "absent" THEN Err("NotFound")
         ELSE IF lockfile.status = "unreadable" THEN Err("Read")
         ELSE IF lockfile.status = "malformed" THEN Err("Parse")
         ELSE Ok(ResolveAll(PackageVersions(lockfile.package), request))

(***************************************************************************)
(* find_cargo_lock (lib.rs 594-616).  The file system is one chain of      *)
(* directories: level 0 is the root "/", level i the directory named "i"   *)
(* inside level i - 1.  A path is lexical: absolute or relative to the     *)
(* working directory, with a sequence of components, each a directory name *)
(* or ".".                                                                 *)
(***************************************************************************)
Levels == 0..MaxDepth

CurDir == "."

CargoLockName == "Cargo.lock"

PathOf(abs, comps) == [abs |-> abs, comps |-> comps]

\* The names of the directories from level lo + 1 down to level hi.
Chain(lo, hi) == [i \in 1..(hi - lo) |-> ToString(lo + i)]

\* Path::parent is lexical: it drops the last component, and a path without
\* components ("/" or "") has no parent.
Parent(path) ==
    IF path.comps = <<>> THEN None
    ELSE Some(PathOf(path.abs, SubSeq(path.comps, 1, Len(path.comps) - 1)))

\* Path::join with a relative component appends it.
Join(path, name) == PathOf(path.abs, Append(path.comps, name))

\* The directory a path names for the operating system: resolution starts at
\* the root or at the working directory; -1 when no such directory exists.
RECURSIVE Walk(_, _)
Walk(level, comps) ==
    IF comps = <<>> \/ level = -1 THEN level
    ELSE IF comps[1] = CurDir THEN Walk(level, Tail(comps))
    ELSE IF comps[1] = ToString(level + 1) /\ level + 1 \in Levels THEN Walk(level + 1, Tail(comps))
    ELSE Walk(-1, Tail(comps))

DirLevel(path) == Walk(IF path.abs THEN 0 ELSE cwd, path.comps)

\* Path::exists of dir/Cargo.lock.
LockExists(dir) == DirLevel(dir) \in Levels /\ lockAt[DirLevel(dir)]

\* The start directories: existing directories, written as an absolute path,
\* as ".", as a path relative to the working directory, or the same with a
\* leading "./".
StartDirs(c) ==
    { PathOf(TRUE, Chain(0, k)) : k \in Levels }
    \cup { PathOf(FALSE, <<CurDir>>) }
    \cup { PathOf(FALSE, Chain(c, k)) : k \in (c + 1)..MaxDepth }
    \cup { PathOf(FALSE, <<CurDir>> \o Chain(c, k)) : k \in (c + 1)..MaxDepth }

\* lib.rs 595-602: the start directory is checked first.
FindCheckStart ==
    /\ findPc = "first"
    /\ currentDir' = startDir
    /\ probes' = Append(probes, Join(startDir, CargoLockName))
    /\ IF LockExists(startDir)
         THEN /\ findPc' = "done"
              /\ lockResult' = Ok(Join(startDir, CargoLockName))
         ELSE /\ findPc' = "parents"
              /\ UNCHANGED lockResult
    /\ UNCHANGED <<lockAt, cwd, startDir>>

\* lib.rs 605-611: one iteration of the loop over current_dir.parent().
FindCheckParent ==
    /\ findPc = "parents"
    /\ IsSome(Parent(currentDir))
    /\ currentDir' = Parent(currentDir)[1]
    /\ probes' = Append(probes, Join(currentDir', CargoLockName))
    /\ IF LockExists(currentDir')
         THEN /\ findPc' = "done"
              /\ lockResult' = Ok(Join(currentDir', CargoLockName))
         ELSE UNCHANGED <<findPc, lockResult>>
    /\ UNCHANGED <<lockAt, cwd, startDir>>

\* lib.rs 605, 613-615: the loop ends when current_dir has no parent.
FindGiveUp ==
    /\ findPc = "parents"
    /\ Parent(currentDir) = None
    /\ findPc' = "done"
    /\ lockResult' = Err("NotFound")
    /\ UNCHANGED <<lockAt, cwd, startDir, currentDir, probes>>

(***************************************************************************)
(* resolve_registry_path (lib.rs 645-701).  The registry directory holds   *)
(* entries in the order read_dir yields them; the i-th is named "index-i". *)
(* An entry is a directory or a file with a modification time, a directory *)
(* whose metadata or modification time cannot be read (mtime = None), or   *)
(* an entry whose reading fails ("ioerr").                                 *)
(***************************************************************************)
IndexName(i) == "index-" \o ToString(i)

\* lib.rs 651: home_dir.join(".cargo").join("registry").join("src").
RegistryDir == PathOf(TRUE, <<"home", ".cargo", "registry", "src">>)

Mtimes == 1..MaxMtime

EntryShapes ==
    { [kind |-> "dir", mtime |-> Some(t)] : t \in Mtimes }
    \cup { [kind |-> "dir", mtime |-> None] }
    \cup { [kind |-> "file", mtime |-> Some(t)] : t \in Mtimes }
    \cup { [kind |-> "ioerr", mtime |-> None] }

RegEntry(i, shape) == [name |-> IndexName(i), kind |-> shape.kind, mtime |-> shape.mtime]

\* The listings of at most n entries.
Listings(n) ==
    UNION { { [i \in 1..k |-> RegEntry(i, f[i])] : f \in [1..k -> EntryShapes] } : k \in 0..n }

Registry(status, entries) == [status |-> status, entries |-> entries]

Registries(n) ==
    { Registry("ok", es) : es \in Listings(n) }
    \cup { Registry(st, <<>>) : st \in {"absent", "unreadable"} }

\* A plausible bug of the selection: a later entry replaces the current choice
\* when it is as new as it.
RECURSIVE LatestDirLastWins(_, _)
LatestDirLastWins(entries, latest) ==
    IF entries = <<>> THEN Ok(latest)
    ELSE LET e == entries[1] IN
         IF e.kind = "ioerr" THEN Err("Io")
         ELSE IF e.kind = "dir" /\ IsSome(e.mtime)
                 /\ (latest = None \/ e.mtime[1] >= latest[1].mtime)
              THEN LatestDirLastWins(Tail(entries),
                       Some([path |-> Join(RegistryDir, e.name), mtime |-> e.mtime[1]]))
              ELSE LatestDirLastWins(Tail(entries), latest)

\* lib.rs 670-691: the loop over the entries; latest is latest_dir.
RECURSIVE LatestDir(_, _)
LatestDir(entries, latest) ==
    IF entries = <<>> THEN Ok(latest)
    ELSE LET e == entries[1] IN
         IF e.kind = "ioerr" THEN Err("Io")
         ELSE IF e.kind = "dir" /\ IsSome(e.mtime)
                 /\ (latest = None \/ e.mtime[1] > latest[1].mtime)
              THEN LatestDir(Tail(entries),
                       Some([path |-> Join(RegistryDir, e.name), mtime |-> e.mtime[1]]))
              ELSE LatestDir(Tail(entries), latest)

\* A plausible bug: without a usable subdirectory the registry directory itself
\* is returned.
RegistryPathOrBase(h, reg) ==
    IF ~h THEN Err("NoHome")
    ELSE IF reg.status = "absent" THEN Err("NotFound")
    ELSE IF reg.status = "unreadable" THEN Err("Read")
    ELSE LET scan == LatestDir(reg.entries, None) IN
         IF scan.tag = "Err" THEN scan
         ELSE IF scan.value = None THEN Ok(RegistryDir)
         ELSE Ok(scan.value[1].path)

\* lib.rs 645-701 as a function of the environment.
RegistryPath(h, reg) ==
    IF ~h THEN Err("NoHome")
    ELSE IF reg.status = "absent" THEN Err("NotFound")
    ELSE IF reg.status = "unreadable" THEN Err("Read")
    ELSE LET scan == LatestDir(reg.entries, None) IN
         IF scan.tag = "Err" THEN scan
         ELSE IF scan.value = None THEN Err("NoRegistry")
         ELSE Ok(scan.value[1].path)

\* A call of resolve_registry_path.
ResolveRegistryPath ==
    /\ regResult = Pending
    /\ regResult' = RegistryPath(home, registry)
    /\ UNCHANGED <<regEnv, availVars, pathsVars>>

(***************************************************************************)
(* Paths of dependencies inside a registry base directory (lib.rs 114-122, *)
(* 714-734, 765-780).  Of all the directories of the model only index-1    *)
(* holds entries; crateKind tells what each of them is.                    *)
(***************************************************************************)
CrateDirNames == { n \o "-" \o v : n \in DepNames, v \in LockVersions }

CrateKinds == {"absent", "file", "dir"}

PopulatedIndex == Join(RegistryDir, IndexName(1))

\* What a path is on disk: "dir", "file" or "absent".
PathKind(path) ==
    IF /\ path.comps /= <<>>
       /\ Parent(path)[1] = PopulatedIndex
       /\ path.comps[Len(path.comps)] \in CrateDirNames
       /\ registry.status = "ok"
       /\ registry.entries /= <<>>
       /\ registry.entries[1].kind = "dir"
    THEN crateKind[path.comps[Len(path.comps)]]
    ELSE "absent"

\* Path::exists and Path::is_dir.
PathExists(path) == PathKind(path) /= "absent"

PathIsDir(path) == PathKind(path) = "dir"

\* A plausible bug of the path constructors: version and name are exchanged.
ConstructVersionFirst(registry_path, dependency_name, dependency_version) ==
    Join(registry_path, dependency_version \o "-" \o dependency_name)

\* lib.rs 714-720
ConstructDependencyPath(registry_path, dependency_name, dependency_version) ==
    Join(registry_path, dependency_name \o "-" \o dependency_version)

\* lib.rs 114-116
GetRegistryPath(self, registry_base_path) ==
    Join(registry_base_path, self.name \o "-" \o self.version)

\* A plausible bug of the availability test: existence alone is tested.
IsAvailableIfExists(self, registry_base_path) ==
    PathExists(GetRegistryPath(self, registry_base_path))

\* lib.rs 119-122
IsAvailableInRegistry(self, registry_base_path) ==
    LET path == GetRegistryPath(self, registry_base_path)
    IN PathExists(path) /\ PathIsDir(path)

\* The base paths of the model: index-1, index-2 and a path nothing lies at.
BasePaths ==
    { Join(RegistryDir, IndexName(1)), Join(RegistryDir, IndexName(2)),
      PathOf(TRUE, <<"non", "existent", "path">>) }

\* The dependencies asked about: the versions a lockfile pins and a requirement.
AvailDeps == { DependencyNew(n, v) : n \in DepNames, v \in LockVersions \cup {"1.0"} }

\* lib.rs 732-734: a call of is_dependency_available.
IsDependencyAvailable ==
    /\ available = Pending
    /\ available' = Ok(IsAvailableInRegistry(availDep, basePath))
    /\ UNCHANGED <<regEnv, regResult, basePath, availDep, constructed, pathsVars>>

\* A call of construct_dependency_path and one of get_registry_path with the
\* same base, name and version.
CallConstructDependencyPath ==
    /\ constructed = None
    /\ constructed' =
          Some([free |-> ConstructDependencyPath(basePath, availDep.name, availDep.version),
                method |-> GetRegistryPath(DependencyNew(availDep.name, availDep.version),
                                           basePath)])
    /\ UNCHANGED <<regEnv, regResult, basePath, availDep, available, pathsVars>>

\* The maps handed to resolve_dependency_paths.
VersionMaps == UNION { [S -> LockVersions] : S \in SUBSET DepNames }

\* A plausible bug of resolve_dependency_paths: every name is kept.
ResolvePathsKeepingAll(h, reg, dependencies) ==
    LET registry_path == RegistryPath(h, reg)
    IN IF registry_path.tag = "Err" THEN registry_path
       ELSE Ok([name \in DOMAIN dependencies |->
                   ConstructDependencyPath(registry_path.value, name, dependencies[name])])

\* lib.rs 765-780 as a function of the environment and the map.
ResolvePaths(h, reg, dependencies) ==
    LET registry_path == RegistryPath(h, reg)
    IN IF registry_path.tag = "Err" THEN registry_path
       ELSE LET dependency_path(name) ==
                    ConstructDependencyPath(registry_path.value, name, dependencies[name])
                kept == { name \in DOMAIN dependencies :
                            PathExists(dependency_path(name)) /\ PathIsDir(dependency_path(name)) }
            IN Ok([name \in kept |-> dependency_path(name)])

\* A call of resolve_dependency_paths.
ResolveDependencyPaths ==
    /\ pathsResult = Pending
    /\ pathsResult' = ResolvePaths(home, registry, pathsInput)
    /\ UNCHANGED <<regEnv, regResult, availVars, pathsInput>>

(***************************************************************************)
(* generate_code_bank (lib.rs 793-846) and generate_all_code_banks         *)
(* (lib.rs 888-927).  What create_dir_all, CodeBank::try_new, generate and *)
(* fs::write do is the environment's choice: stage names the first of them *)
(* that fails, "ok" when none does.                                        *)
(***************************************************************************)
OutputDir == PathOf(TRUE, <<"out">>)

BankPool ==
    { DependencyNew("anyhow", "1.0.68"), DependencyNew("serde", "1.0.68"),
      DependencyNew("serde", "1.0.75") }

\* The stages that can fail, given whether output_dir exists.
Stages(dirExists) ==
    (IF dirExists THEN {} ELSE {"create_dir"}) \cup {"try_new", "generate", "write", "ok"}

\* A plausible bug of the output file name: the extension is left out.
OutputFileNoExtension(output_dir, dependency_name) == Join(output_dir, dependency_name)

\* lib.rs 817: output_dir.join(format!("{}.md", dependency_name)).
OutputFile(output_dir, dependency_name) == Join(output_dir, dependency_name \o ".md")

\* lib.rs 793-846: the Result of generate_code_bank and whether output_dir
\* exists afterwards.
GenerateCodeBank(source_path, output_dir, dependency_name, dirExists, stage) ==
    IF ~PathExists(source_path) \/ ~PathIsDir(source_path)
      THEN [result |-> Err("Source"), dirExists |-> dirExists]
    ELSE IF stage = "create_dir"
      THEN [result |-> Err("CreateDir"), dirExists |-> dirExists]
    ELSE IF stage = "try_new"
      THEN [result |-> Err("CodeBank"), dirExists |-> TRUE]
    ELSE IF stage = "generate"
      THEN [result |-> Err("Generate"), dirExists |-> TRUE]
    ELSE IF stage = "write"
      THEN [result |-> Err("Write"), dirExists |-> TRUE]
    ELSE [result |-> Ok(OutputFile(output_dir, dependency_name)), dirExists |-> TRUE]

\* A plausible bug of the loop: the first failure ends the call with an error.
BankStepFailFast ==
    /\ bankPc = "loop"
    /\ bankPos <= Len(bankDeps)
    /\ LET dependency == bankDeps[bankPos]
           dependency_path == GetRegistryPath(dependency, basePath)
       IN IF PathExists(dependency_path) /\ PathIsDir(dependency_path)
            THEN \E stage \in Stages(outputDirExists) :
                   LET g == GenerateCodeBank(dependency_path, OutputDir, dependency.name,
                                             outputDirExists, stage)
                   IN /\ outputDirExists' = g.dirExists
                      /\ bankLog' = Append(bankLog, [dep |-> dependency, outcome |-> stage])
                      /\ UNCHANGED errors
                      /\ IF g.result.tag = "Ok"
                           THEN /\ codeBankFiles' =
                                      MapInsert(codeBankFiles, dependency.name, g.result.value)
                                /\ written' = written \cup {g.result.value}
                                /\ bankPos' = bankPos + 1
                                /\ UNCHANGED <<bankPc, bankResult>>
                           ELSE /\ bankPc' = "done"
                                /\ bankResult' = g.result
                                /\ UNCHANGED <<codeBankFiles, written, bankPos>>
            ELSE /\ bankPc' = "done"
                 /\ bankResult' = Err("NotFound")
                 /\ bankLog' = Append(bankLog, [dep |-> dependency, outcome |-> "missing"])
                 /\ UNCHANGED <<outputDirExists, codeBankFiles, written, errors, bankPos>>
    /\ UNCHANGED bankDeps

\* lib.rs 895-916: one iteration of the loop over dependencies.as_slice().
BankStep ==
    /\ bankPc = "loop"
    /\ bankPos <= Len(bankDeps)
    /\ LET dependency == bankDeps[bankPos]
           dependency_path == GetRegistryPath(dependency, basePath)
       IN IF PathExists(dependency_path) /\ PathIsDir(dependency_path)
            THEN \E stage \in Stages(outputDirExists) :
                   LET g == GenerateCodeBank(dependency_path, OutputDir, dependency.name,
                                             outputDirExists, stage)
                   IN /\ outputDirExists' = g.dirExists
                      /\ bankLog' = Append(bankLog, [dep |-> dependency, outcome |-> stage])
                      /\ IF g.result.tag = "Ok"
                           THEN /\ codeBankFiles' =
                                      MapInsert(codeBankFiles, dependency.name, g.result.value)
                                /\ written' = written \cup {g.result.value}
                                /\ UNCHANGED errors
                           ELSE /\ errors' = Append(errors,
                                      [kind |-> "Failed", name |-> dependency.name,
                                       cause |-> g.result.kind])
                                /\ UNCHANGED <<codeBankFiles, written>>
            ELSE /\ errors' = Append(errors, [kind |-> "NotFound", path |-> dependency_path])
                 /\ bankLog' = Append(bankLog, [dep |-> dependency, outcome |-> "missing"])
                 /\ UNCHANGED <<outputDirExists, codeBankFiles, written>>
    /\ bankPos' = bankPos + 1
    /\ UNCHANGED <<bankDeps, bankPc, bankResult>>

\* lib.rs 918-926: the warnings are printed and the map is returned.
BankReturn ==
    /\ bankPc = "loop"
    /\ bankPos > Len(bankDeps)
    /\ bankPc' = "done"
    /\ bankResult' = Ok(codeBankFiles)
    /\ UNCHANGED <<bankDeps, outputDirExists, bankPos, codeBankFiles, errors, bankLog, written>>

(***************************************************************************)
(* calculate_directory_tokens (lib.rs 1018-1077).  An entry of the         *)
(* directory has a name made of a stem and an optional extension; it is a  *)
(* directory, a file that can be read, with its size and the number of     *)
(* tokens the tokenizer counts in it, or a file that cannot be read.       *)
(***************************************************************************)
Stems == {"a", "b"}

Extensions == {"md", "rs"}

EntryNames == { [stem |-> st, ext |-> x] : st \in Stems, x \in {None} \cup { Some(t) : t \in Extensions } }

\* The file name as written on disk.
FileNameOf(name) == IF name.ext = None THEN name.stem ELSE name.stem \o "." \o name.ext[1]

\* Path::file_stem and Path::extension of dir_path/name.
FileStem(name) == Some(name.stem)

Extension(name) == name.ext

Contents ==
    { [kind |-> "dir", readable |-> TRUE, size |-> 0, tokens |-> 0],
      [kind |-> "file", readable |-> FALSE, size |-> 5, tokens |-> 0],
      [kind |-> "file", readable |-> TRUE, size |-> 0, tokens |-> 0],
      [kind |-> "file", readable |-> TRUE, size |-> 5, tokens |-> 2] }

DirEntries == { [name |-> n, content |-> c] : n \in EntryNames, c \in Contents }

\* The listings of at most MaxFiles entries with different names, in the
\* order read_dir yields them.
DirListings ==
    { l \in SeqsUpTo(DirEntries, MaxFiles) :
        \A i, j \in DOMAIN l : l[i].name = l[j].name => i = j }

TokenDir(status, entries) == [status |-> status, entries |-> entries]

FileStats(path, size_bytes, token_count) ==
    [path |-> path, size_bytes |-> size_bytes, token_count |-> token_count]

\* lib.rs 1035-1073: the loop over the entries; file_stats is the map so far.
RECURSIVE TokenLoop(_, _, _)
TokenLoop(entries, extension, file_stats) ==
    IF entries = <<>> THEN Ok(file_stats)
    ELSE LET e == entries[1] IN
         IF e.content.kind = "dir" THEN TokenLoop(Tail(entries), extension, file_stats)
         ELSE IF IsSome(extension) /\ Extension(e.name) /= extension
         THEN TokenLoop(Tail(entries), extension, file_stats)
         ELSE IF ~e.content.readable THEN Err("Read")
         ELSE TokenLoop(Tail(entries), extension,
                        MapInsert(file_stats, UnwrapOr(FileStem(e.name), ""),
                                  FileStats(FileNameOf(e.name), e.content.size,
                                            e.content.tokens)))

\* lib.rs 1018-1077 as a function of the directory and the filter.
DirectoryTokens(dir, extension) ==
    IF dir.status /= "dir" THEN Err("NotADirectory")
    ELSE TokenLoop(dir.entries, extension, <<>>)

\* A call of calculate_directory_tokens.
CalculateDirectoryTokens ==
    /\ tokResult = Pending
    /\ tokResult' = DirectoryTokens(tokDir, tokFilter)
    /\ UNCHANGED <<tokDir, tokFilter>>

(***************************************************************************)
(* collect_dependencies (lib.rs 342-369).                                  *)
(***************************************************************************)
\* The manifests handed to collect_dependencies: every entry is a plain
\* version text, since only the keys of the tables are read.
PlainManifests ==
    { MakeManifest(f, UsedTables(f)) :
        f \in UNION { [S -> {Simple("1.0")}] :
                        S \in { T \in SUBSET Slots : Cardinality(T) <= MaxEntries } } }
    \cup {BrokenManifest("unreadable"), BrokenManifest("malformed")}

\* A plausible bug: the dev and build tables are not read.
RECURSIVE CollectRuntimeOnly(_, _)
CollectRuntimeOnly(files, dependencies) ==
    IF files = <<>> THEN Ok(dependencies)
    ELSE IF ReadToString(files[1]).tag = "Err" THEN ReadToString(files[1])
    ELSE IF ParseCargoToml(files[1]).tag = "Err" THEN ParseCargoToml(files[1])
    ELSE LET cargo_toml == ParseCargoToml(files[1]).value
         IN CollectRuntimeOnly(Tail(files), dependencies \cup DOMAIN cargo_toml.dependencies)

\* lib.rs 345-366: the loop over the files; dependencies is the HashSet so far.
RECURSIVE CollectLoop(_, _)
CollectLoop(files, dependencies) ==
    IF files = <<>> THEN Ok(dependencies)
    ELSE IF ReadToString(files[1]).tag = "Err" THEN ReadToString(files[1])
    ELSE IF ParseCargoToml(files[1]).tag = "Err" THEN ParseCargoToml(files[1])
    ELSE LET cargo_toml == ParseCargoToml(files[1]).value
         IN CollectLoop(Tail(files),
                        dependencies \cup DOMAIN cargo_toml.dependencies
                                     \cup DOMAIN cargo_toml.dev_dependencies
                                     \cup DOMAIN cargo_toml.build_dependencies)

\* A call of collect_dependencies.
CollectDependencies ==
    /\ gathered = Pending
    /\ gathered' = CollectLoop(manifestFiles, {})
    /\ UNCHANGED manifestFiles

ScanIdle ==
    /\ rootKind = "dir"
    /\ tree = <<>>
    /\ scanPc = "start"
    /\ stack = <<>>
    /\ found = <<>>
    /\ reads = <<>>
    /\ scanResult = Pending
    /\ ioFailed = None

CollIdle ==
    /\ deps = <<>>
    /\ addLog = <<>>
    /\ mapped = None
    /\ rebuilt = None
    /\ looked = None

ExtractIdle ==
    /\ manifest = MakeManifest(<<>>, {})
    /\ extracted = Pending

ResolveIdle ==
    /\ lockfile = LockFile(<<>>)
    /\ request = <<>>
    /\ resolved = Pending
    /\ lockOps = <<>>

FindIdle ==
    /\ lockAt = [l \in Levels |-> FALSE]
    /\ cwd = 0
    /\ startDir = PathOf(TRUE, <<>>)
    /\ findPc = "first"
    /\ currentDir = PathOf(TRUE, <<>>)
    /\ probes = <<>>
    /\ lockResult = Pending

CoreIdle == ScanIdle /\ CollIdle /\ ExtractIdle /\ ResolveIdle

AvailIdle ==
    /\ basePath = RegistryDir
    /\ availDep = DependencyNew("anyhow", "1.0")
    /\ available = Pending
    /\ constructed = None

PathsIdle ==
    /\ pathsInput = <<>>
    /\ pathsResult = Pending

RegIdle ==
    /\ home = FALSE
    /\ registry = Registry("absent", <<>>)
    /\ crateKind = [d \in CrateDirNames |-> "absent"]
    /\ regResult = Pending
    /\ AvailIdle
    /\ PathsIdle

BankIdle ==
    /\ bankDeps = <<>>
    /\ outputDirExists = FALSE
    /\ bankPc = "loop"
    /\ bankPos = 1
    /\ codeBankFiles = <<>>
    /\ errors = <<>>
    /\ bankLog = <<>>
    /\ written = {}
    /\ bankResult = Pending

TokIdle ==
    /\ tokDir = TokenDir("absent", <<>>)
    /\ tokFilter = None
    /\ tokResult = Pending

GatherIdle ==
    /\ manifestFiles = <<>>
    /\ gathered = Pending

MoreIdle == TokIdle /\ GatherIdle

FsIdle == FindIdle /\ RegIdle /\ BankIdle

InitScan ==
    /\ rootKind \in {"absent", "file", "dir"}
    /\ tree \in (IF rootKind = "dir" THEN Trees ELSE {<<>>})
    /\ scanPc = "start"
    /\ stack = <<>>
    /\ found = <<>>
    /\ reads = <<>>
    /\ scanResult = Pending
    /\ ioFailed = None
    /\ CollIdle /\ ExtractIdle /\ ResolveIdle /\ FsIdle /\ MoreIdle

NextScan ==
    \/ ScanStart /\ UNCHANGED <<collVars, extractVars, resolveVars, fsVars, moreVars>>
    \/ ScanEntry /\ UNCHANGED <<collVars, extractVars, resolveVars, fsVars, moreVars>>
    \/ ScanReturn /\ UNCHANGED <<collVars, extractVars, resolveVars, fsVars, moreVars>>

SpecScan == InitScan /\ [][NextScan]_vars

\* The call runs on one thread that nothing suspends: a step that can be taken
\* is taken.
SpecScanFair == SpecScan /\ WF_vars(NextScan)

InitColl ==
    /\ deps = <<>>
    /\ addLog = <<>>
    /\ mapped = None
    /\ rebuilt = None
    /\ looked = None
    /\ ScanIdle /\ ExtractIdle /\ ResolveIdle /\ FsIdle /\ MoreIdle

NextColl ==
    \/ \E dep \in DependencyPool : Add(dep) /\ UNCHANGED <<scanVars, extractVars, resolveVars, fsVars, moreVars>>
    \/ CallToMap /\ UNCHANGED <<scanVars, extractVars, resolveVars, fsVars, moreVars>>
    \/ CallFromMap /\ UNCHANGED <<scanVars, extractVars, resolveVars, fsVars, moreVars>>
    \/ \E name \in LookupNames :
          CallLookup(name) /\ UNCHANGED <<scanVars, extractVars, resolveVars, fsVars, moreVars>>

SpecColl == InitColl /\ [][NextColl]_vars

InitExtract ==
    /\ \/ \E f \in SlotAssignments, present \in SUBSET TableNames :
            /\ UsedTables(f) \subseteq present
            /\ manifest = MakeManifest(f, present)
       \/ manifest \in {BrokenManifest("unreadable"), BrokenManifest("malformed")}
    /\ extracted = Pending
    /\ ScanIdle /\ CollIdle /\ ResolveIdle /\ FsIdle /\ MoreIdle

NextExtract == ExtractDependencyInfo /\ UNCHANGED <<scanVars, collVars, resolveVars, fsVars, moreVars>>

SpecExtract == InitExtract /\ [][NextExtract]_vars

InitResolve ==
    /\ lockfile \in { LockFile(p) : p \in SeqsUpTo(LockPackages, MaxLock) }
                    \cup { BrokenLockFile(st) : st \in {"absent", "unreadable", "malformed"} }
    /\ request \in SeqsUpTo(RequestPool, MaxRequest)
    /\ resolved = Pending
    /\ lockOps = <<>>
    /\ ScanIdle /\ CollIdle /\ ExtractIdle /\ FsIdle /\ MoreIdle

NextResolve == ResolveDependencyVersions /\ UNCHANGED <<scanVars, collVars, extractVars, fsVars, moreVars>>

SpecResolve == InitResolve /\ [][NextResolve]_vars

InitFind ==
    /\ lockAt \in [Levels -> BOOLEAN]
    /\ cwd \in Levels
    /\ startDir \in StartDirs(cwd)
    /\ findPc = "first"
    /\ currentDir = startDir
    /\ probes = <<>>
    /\ lockResult = Pending
    /\ CoreIdle /\ MoreIdle /\ RegIdle /\ BankIdle

NextFind ==
    \/ FindCheckStart /\ UNCHANGED <<coreVars, moreVars, regVars, bankVars>>
    \/ FindCheckParent /\ UNCHANGED <<coreVars, moreVars, regVars, bankVars>>
    \/ FindGiveUp /\ UNCHANGED <<coreVars, moreVars, regVars, bankVars>>

SpecFind == InitFind /\ [][NextFind]_vars

InitRegistry ==
    /\ home \in BOOLEAN
    /\ registry \in Registries(MaxRegEntries)
    /\ crateKind = [d \in CrateDirNames |-> "absent"]
    /\ regResult = Pending
    /\ AvailIdle /\ PathsIdle
    /\ CoreIdle /\ MoreIdle /\ FindIdle /\ BankIdle

NextRegistry == ResolveRegistryPath /\ UNCHANGED <<coreVars, moreVars, findVars, bankVars>>

SpecRegistry == InitRegistry /\ [][NextRegistry]_vars

InitAvail ==
    /\ home = TRUE
    /\ registry \in Registries(1)
    /\ crateKind \in [CrateDirNames -> CrateKinds]
    /\ regResult = Pending
    /\ basePath \in BasePaths
    /\ availDep \in AvailDeps
    /\ available = Pending
    /\ constructed = None
    /\ PathsIdle
    /\ CoreIdle /\ MoreIdle /\ FindIdle /\ BankIdle

NextAvail ==
    \/ IsDependencyAvailable /\ UNCHANGED <<coreVars, moreVars, findVars, bankVars>>
    \/ CallConstructDependencyPath /\ UNCHANGED <<coreVars, moreVars, findVars, bankVars>>

SpecAvail == InitAvail /\ [][NextAvail]_vars

InitPaths ==
    /\ home \in BOOLEAN
    /\ registry \in Registries(2)
    /\ crateKind \in [CrateDirNames -> CrateKinds]
    /\ regResult = Pending
    /\ AvailIdle
    /\ pathsInput \in VersionMaps
    /\ pathsResult = Pending
    /\ CoreIdle /\ MoreIdle /\ FindIdle /\ BankIdle

NextPaths == ResolveDependencyPaths /\ UNCHANGED <<coreVars, moreVars, findVars, bankVars>>

SpecPaths == InitPaths /\ [][NextPaths]_vars

InitBank ==
    /\ home = TRUE
    /\ registry = Registry("ok", <<RegEntry(1, [kind |-> "dir", mtime |-> Some(1)])>>)
    /\ crateKind \in [CrateDirNames -> CrateKinds]
    /\ regResult = Pending
    /\ basePath \in {PopulatedIndex, PathOf(TRUE, <<"non", "existent", "path">>)}
    /\ availDep = DependencyNew("anyhow", "1.0")
    /\ available = Pending
    /\ constructed = None
    /\ PathsIdle
    /\ bankDeps \in SeqsUpTo(BankPool, MaxBank)
    /\ outputDirExists \in BOOLEAN
    /\ bankPc = "loop"
    /\ bankPos = 1
    /\ codeBankFiles = <<>>
    /\ errors = <<>>
    /\ bankLog = <<>>
    /\ written = {}
    /\ bankResult = Pending
    /\ CoreIdle /\ MoreIdle /\ FindIdle

NextBank ==
    \/ BankStep /\ UNCHANGED <<coreVars, moreVars, findVars, regVars>>
    \/ BankReturn /\ UNCHANGED <<coreVars, moreVars, findVars, regVars>>

SpecBank == InitBank /\ [][NextBank]_vars

InitTokens ==
    /\ tokDir \in { TokenDir("dir", l) : l \in DirListings }
                  \cup { TokenDir(st, <<>>) : st \in {"absent", "file"} }
    /\ tokFilter \in {None} \cup { Some(x) : x \in Extensions }
    /\ tokResult = Pending
    /\ CoreIdle /\ FsIdle /\ GatherIdle

NextTokens == CalculateDirectoryTokens /\ UNCHANGED <<coreVars, fsVars, gatherVars>>

SpecTokens == InitTokens /\ [][NextTokens]_vars

InitCollect ==
    /\ manifestFiles \in SeqsUpTo(PlainManifests, MaxManifests)
    /\ gathered = Pending
    /\ CoreIdle /\ FsIdle /\ TokIdle

NextCollect == CollectDependencies /\ UNCHANGED <<coreVars, fsVars, tokVars>>

SpecCollect == InitCollect /\ [][NextCollect]_vars

(***************************************************************************)
(* Claims about find_cargo_toml_files.                                     *)
(***************************************************************************)
\* Node n lies inside a directory below root_dir whose name starts with '.'.
InsideHiddenDir(n) ==
    \E a \in AncestorsBelowRoot(n) : NameStartsWithDot(tree[a].name)

\* C1: the scan never reads a directory whose name starts with '.', its result
\* holds no path inside such a directory, and it holds every entry named
\* Cargo.toml that is reachable from root through non-hidden directories only.
C1_HiddenSkippedNoneOmitted ==
    /\ \A i \in DOMAIN reads :
         reads[i] /= 0 => ~NameStartsWithDot(tree[reads[i]].name)
    /\ scanResult.tag = "Ok" =>
         /\ \A i \in DOMAIN scanResult.value : ~InsideHiddenDir(scanResult.value[i])
         /\ \A n \in DOMAIN tree :
              (IsCargoToml(n) /\ ~InsideHiddenDir(n))
                  => \E i \in DOMAIN scanResult.value : scanResult.value[i] = n

\* C19: when root does not exist, and when it exists but is not a directory,
\* find_cargo_toml_files returns an error that names root and no list of
\* paths, and reads no directory.
C19_BadRootRejectedUnread ==
    rootKind /= "dir" =>
        /\ reads = <<>>
        /\ scanResult.tag /= "Ok"
        /\ scanPc = "done" =>
              scanResult = ErrAt(IF rootKind = "absent" THEN "NotFound" ELSE "NotADirectory", 0)

\* The call on a root that is a regular file has returned.
C19_Witness ==
    /\ rootKind = "file"
    /\ scanPc = "done"
    /\ scanResult.tag = "Err"
    /\ scanResult.path = 0

\* C20: when the reading of a directory reached by the traversal fails, at the
\* root or at any depth, find_cargo_toml_files returns an error and none of the
\* manifests collected before the failure; it never returns Ok after a failure.
C20_FailFast ==
    /\ IsSome(ioFailed) =>
          /\ scanPc = "done"
          /\ scanResult.tag = "Err"
          /\ scanResult.path = ioFailed[1]
          /\ found = <<>>
    /\ scanResult.tag = "Ok" => ioFailed = None

\* The reading of a directory below root failed after a Cargo.toml of root had
\* been collected, and the call returned the error alone.
C20_Witness ==
    /\ IsSome(ioFailed)
    /\ ioFailed[1] /= 0
    /\ scanResult.tag = "Err"
    /\ found = <<>>
    /\ \E n \in DOMAIN tree :
          /\ IsCargoToml(n)
          /\ tree[n].parent = 0
          /\ tree[ioFailed[1]].parent = 0
          /\ n < ioFailed[1]

(***************************************************************************)
(* Claims about DependencyCollection.                                      *)
(***************************************************************************)
\* C9: after any sequence of add calls the collection holds exactly the added
\* entries in the order added, and len is the number of add calls: entries
\* sharing a name are never merged, replaced or rejected.
C9_AddKeepsEveryEntry ==
    /\ Len(deps) = Len(addLog)
    /\ \A i \in DOMAIN addLog : deps[i] = addLog[i]

\* Three adds of one name: twice the same version, then another version.
C9_Witness ==
    /\ Len(addLog) = 3
    /\ addLog[1] = addLog[2]
    /\ addLog[3].name = addLog[1].name
    /\ addLog[3].version /= addLog[1].version
    /\ Len(deps) = 3

\* The index of the last entry of collection c named n.
LastIndexOf(c, n) ==
    CHOOSE i \in DOMAIN c :
        c[i].name = n /\ \A j \in DOMAIN c : c[j].name = n => j <= i

\* C10: to_map has exactly one key per distinct name of the collection, and the
\* value of a key is the version of the last-added entry of that name.
C10_ToMapLastWriteWins ==
    IsSome(mapped) =>
        LET c == mapped[1].src
            m == mapped[1].map
        IN /\ DOMAIN m = { c[i].name : i \in DOMAIN c }
           /\ \A n \in DOMAIN m : m[n] = c[LastIndexOf(c, n)].version

\* to_map was called on a collection holding one name with two versions.
C10_Witness ==
    /\ IsSome(mapped)
    /\ \E i, j \in DOMAIN mapped[1].src :
         /\ i < j
         /\ mapped[1].src[i].name = mapped[1].src[j].name
         /\ mapped[1].src[i].version /= mapped[1].src[j].version
         /\ mapped[1].map[mapped[1].src[j].name] = mapped[1].src[j].version

\* The (name, version) pairs a collection holds.
PairsOf(c) == { <<c[i].name, c[i].version>> : i \in DOMAIN c }

NoDuplicateNames(c) == \A i, j \in DOMAIN c : c[i].name = c[j].name => i = j

\* C11: for a collection without duplicate names, from_map(to_map(collection))
\* holds exactly the (name, version) pairs of the collection, and as many entries.
C11_RoundTrip ==
    (IsSome(rebuilt) /\ NoDuplicateNames(rebuilt[1].src)) =>
        /\ PairsOf(rebuilt[1].coll) = PairsOf(rebuilt[1].src)
        /\ Len(rebuilt[1].coll) = Len(rebuilt[1].src)

\* Two entries of different names went through to_map and from_map and came
\* back in the other order.
C11_Witness ==
    /\ IsSome(rebuilt)
    /\ NoDuplicateNames(rebuilt[1].src)
    /\ Len(rebuilt[1].src) = 2
    /\ rebuilt[1].coll[1] = rebuilt[1].src[2]
    /\ rebuilt[1].coll[2] = rebuilt[1].src[1]

(***************************************************************************)
(* Claims about find_cargo_lock.                                           *)
(***************************************************************************)
\* The levels of the start directory and of its ancestors up to the root that
\* hold a Cargo.lock.
LockLevels == { l \in 0..DirLevel(startDir) : lockAt[l] }

\* The nearest of them.
NearestLock == CHOOSE l \in LockLevels : \A m \in LockLevels : m <= l

\* The level of the directory whose Cargo.lock was the i-th path tested.
ProbedLevel(i) == DirLevel(Parent(probes[i])[1])

\* C12: find_cargo_lock examines start_dir and then its ancestors from the
\* nearest to the farthest, returns the Cargo.lock of the nearest directory
\* that has one, and returns not-found only when neither start_dir nor any
\* ancestor up to the root of the file system has one.
C12_NearestLockUpToRoot ==
    /\ \A i \in DOMAIN probes :
          IF i = 1 THEN ProbedLevel(1) = DirLevel(startDir)
          ELSE ProbedLevel(i) \in {ProbedLevel(i - 1), ProbedLevel(i - 1) - 1}
    /\ findPc = "done" =>
          IF LockLevels = {}
            THEN lockResult = Err("NotFound")
            ELSE /\ lockResult.tag = "Ok"
                 /\ DirLevel(Parent(lockResult.value)[1]) = NearestLock

(***************************************************************************)
(* Claims about the registry functions.                                    *)
(***************************************************************************)
\* Entry i of the registry is a directory whose modification time is known.
StampedDir(i) == registry.entries[i].kind = "dir" /\ IsSome(registry.entries[i].mtime)

\* C13: resolve_registry_path returns the immediate subdirectory of the
\* registry directory with the greatest modification time, the first
\* enumerated one among those that share it, and never an entry that is not a
\* directory.
C13_NewestDirFirstOnTie ==
    /\ regResult.tag = "Ok" =>
          \E i \in DOMAIN registry.entries :
              /\ StampedDir(i)
              /\ regResult.value = Join(RegistryDir, registry.entries[i].name)
              /\ \A j \in DOMAIN registry.entries :
                    StampedDir(j) =>
                        /\ registry.entries[j].mtime[1] <= registry.entries[i].mtime[1]
                        /\ j < i => registry.entries[j].mtime[1] < registry.entries[i].mtime[1]
    /\ ( /\ regResult /= Pending
         /\ home /\ registry.status = "ok"
         /\ \A i \in DOMAIN registry.entries : registry.entries[i].kind /= "ioerr"
         /\ \E i \in DOMAIN registry.entries : StampedDir(i) ) => regResult.tag = "Ok"

\* The first of two directories of equal, greatest time was returned although
\* a file and the second directory follow it.
C13_Witness ==
    /\ regResult.tag = "Ok"
    /\ Len(registry.entries) = 3
    /\ registry.entries[1].kind = "file" /\ registry.entries[1].mtime = Some(MaxMtime)
    /\ StampedDir(2) /\ StampedDir(3)
    /\ registry.entries[2].mtime = registry.entries[3].mtime
    /\ regResult.value = Join(RegistryDir, IndexName(2))

\* C14: is_dependency_available returns true exactly when base joined with
\* "{name}-{version}" exists and is a directory, and false, never an error, when
\* the path is absent, the base is absent or the path is a regular file.
C14_AvailableIffDirectory ==
    available /= Pending =>
        /\ available.tag = "Ok"
        /\ available.value \in BOOLEAN
        /\ available.value =
              (PathKind(Join(basePath, availDep.name \o "-" \o availDep.version)) = "dir")

\* The path of the dependency is a regular file inside an existing base, and
\* the call returned false.
C14_Witness ==
    /\ available = Ok(FALSE)
    /\ basePath = PopulatedIndex
    /\ PathKind(Join(basePath, availDep.name \o "-" \o availDep.version)) = "file"

\* C15: when the registry root is located, resolve_dependency_paths returns Ok
\* with a map that holds name -> base/"{name}-{version}" for exactly the input
\* names whose constructed path is a directory; the other names are omitted
\* without an error and no name outside the input appears.
C15_ExistingDirsOnly ==
    (pathsResult /= Pending /\ RegistryPath(home, registry).tag = "Ok") =>
        LET base == RegistryPath(home, registry).value
            expected(n) == Join(base, n \o "-" \o pathsInput[n])
        IN /\ pathsResult.tag = "Ok"
           /\ DOMAIN pathsResult.value \subseteq DOMAIN pathsInput
           /\ \A n \in DOMAIN pathsInput :
                 IF PathKind(expected(n)) = "dir"
                   THEN n \in DOMAIN pathsResult.value /\ pathsResult.value[n] = expected(n)
                   ELSE n \notin DOMAIN pathsResult.value

\* Of two requested names one lies in the registry as a directory and is
\* returned, the other lies there as a file and is omitted.
C15_Witness ==
    /\ pathsResult.tag = "Ok"
    /\ DOMAIN pathsInput = DepNames
    /\ DOMAIN pathsResult.value = {"serde"}
    /\ crateKind["anyhow" \o "-" \o pathsInput["anyhow"]] = "file"

\* C16: construct_dependency_path(base, n, v) and
\* Dependency::new(n, v).get_registry_path(base) return the same path, base
\* joined with "{name}-{version}", whatever the file system holds.
C16_SamePurePath ==
    IsSome(constructed) =>
        /\ constructed[1].free = constructed[1].method
        /\ constructed[1].free =
              PathOf(basePath.abs,
                     Append(basePath.comps, availDep.name \o "-" \o availDep.version))

\* The path of a dependency was built under a base that does not exist.
C16_Witness ==
    /\ IsSome(constructed)
    /\ basePath = PathOf(TRUE, <<"non", "existent", "path">>)
    /\ constructed[1].method = PathOf(TRUE, <<"non", "existent", "path", "serde-1.0.75">>)

(***************************************************************************)
(* Claims about generate_all_code_banks.                                   *)
(***************************************************************************)
\* The positions of the dependencies processed so far that ended as given.
Ended(outcomes) == { i \in DOMAIN bankLog : bankLog[i].outcome \in outcomes }

FailedStages == {"create_dir", "try_new", "generate", "write"}

FileTable(t) == IF t \in DOMAIN manifest.sections THEN manifest.sections[t] ELSE EmptyTable

\* The places of the result that hold the entries of table t: the runtime
\* table comes first, then the dev table, then the build table.
Segment(t) ==
    LET rt == Cardinality(DOMAIN FileTable("dependencies"))
        dev == Cardinality(DOMAIN FileTable("dev-dependencies"))
        build == Cardinality(DOMAIN FileTable("build-dependencies"))
    IN IF t = "dependencies" THEN 1..rt
       ELSE IF t = "dev-dependencies" THEN (rt + 1)..(rt + dev)
       ELSE (rt + dev + 1)..(rt + dev + build)

\* The entry n of table t was extracted with version text v.
ExtractedAs(t, n, v) ==
    \E i \in Segment(t) \cap DOMAIN extracted.value :
        extracted.value[i] = [name |-> n, version |-> v]

IsStructured(e) == e.tag = "Detailed"

HasWorkspaceTrue(e) ==
    /\ IsStructured(e)
    /\ "workspace" \in DOMAIN e.table
    /\ e.table["workspace"] = [kind |-> "Boolean", val |-> "true"]

HasVersionString(e) ==
    /\ IsStructured(e)
    /\ "version" \in DOMAIN e.table
    /\ e.table["version"].kind = "String"

\* C5: a structured entry carrying workspace = true is extracted with the
\* version text "workspace", whatever else the entry holds.
C5_WorkspaceFlagWins ==
    extracted.tag = "Ok" =>
        \A t \in TableNames : \A n \in DOMAIN FileTable(t) :
            HasWorkspaceTrue(FileTable(t)[n]) => ExtractedAs(t, n, "workspace")

\* An entry with workspace = true and a version string was extracted.
C5_Witness ==
    /\ extracted.tag = "Ok"
    /\ \E t \in TableNames : \E n \in DOMAIN FileTable(t) :
         /\ HasWorkspaceTrue(FileTable(t)[n])
         /\ HasVersionString(FileTable(t)[n])
         /\ ExtractedAs(t, n, "workspace")

\* C6: a structured entry with neither a workspace key nor a version key is
\* extracted with the version text "*".
C6_UnspecifiedIsStar ==
    extracted.tag = "Ok" =>
        \A t \in TableNames : \A n \in DOMAIN FileTable(t) :
            (/\ IsStructured(FileTable(t)[n])
             /\ "workspace" \notin DOMAIN FileTable(t)[n].table
             /\ "version" \notin DOMAIN FileTable(t)[n].table)
                => ExtractedAs(t, n, "*")

\* A structured entry holding only a path was extracted.
C6_Witness ==
    /\ extracted.tag = "Ok"
    /\ \E t \in TableNames : \E n \in DOMAIN FileTable(t) :
         /\ IsStructured(FileTable(t)[n])
         /\ DOMAIN FileTable(t)[n].table = {"path"}
         /\ ExtractedAs(t, n, "*")

\* The version text the three cases of C7 give entry e.
ExpectedVersion(e) ==
    IF ~IsStructured(e) THEN e.version
    ELSE IF HasWorkspaceTrue(e) THEN "workspace"
    ELSE IF HasVersionString(e) THEN e.table["version"].val
    ELSE "*"

\* C7: every entry is extracted by exactly one of three cases: the workspace
\* flag gives "workspace"; otherwise a plain string, or the version string of a
\* structured entry, gives that string; every other entry gives "*".
C7_OneCaseDecides ==
    extracted.tag = "Ok" =>
        \A t \in TableNames : \A n \in DOMAIN FileTable(t) :
            /\ ExtractedAs(t, n, ExpectedVersion(FileTable(t)[n]))
            /\ \A v \in {"workspace", "*", "1.0", "2.0", ""} :
                 ExtractedAs(t, n, v) => v = ExpectedVersion(FileTable(t)[n])

\* A plain string, and an entry with workspace = false and a version string,
\* were extracted.
C7_Witness ==
    /\ extracted.tag = "Ok"
    /\ \E t \in TableNames : \E n \in DOMAIN FileTable(t) :
         /\ HasVersionString(FileTable(t)[n])
         /\ "workspace" \in DOMAIN FileTable(t)[n].table
         /\ ~HasWorkspaceTrue(FileTable(t)[n])
         /\ ExtractedAs(t, n, "2.0")
    /\ \E t \in TableNames : \E n \in DOMAIN FileTable(t) :
         /\ FileTable(t)[n] = [tag |-> "Simple", version |-> "1.0"]
         /\ ExtractedAs(t, n, "1.0")

\* C8: extraction of a readable, well-formed manifest succeeds, whichever tables
\* the file leaves out, and returns one Dependency per entry of the three
\* tables: the length is the sum of the table sizes, and a name declared in two
\* tables is returned twice.
C8_OneDependencyPerEntry ==
    (manifest.status = "ok" /\ extracted /= Pending) =>
        /\ extracted.tag = "Ok"
        /\ Len(extracted.value) =
               Cardinality(DOMAIN FileTable("dependencies"))
               + Cardinality(DOMAIN FileTable("dev-dependencies"))
               + Cardinality(DOMAIN FileTable("build-dependencies"))
        /\ \A t \in TableNames :
             /\ Segment(t) \subseteq DOMAIN extracted.value
             /\ { extracted.value[i].name : i \in Segment(t) } = DOMAIN FileTable(t)

\* A manifest that leaves a table out and declares one name in two tables.
C8_Witness ==
    /\ extracted.tag = "Ok"
    /\ DOMAIN manifest.sections /= TableNames
    /\ \E t1, t2 \in TableNames : \E n \in DepNames :
         /\ t1 /= t2
         /\ n \in DOMAIN FileTable(t1)
         /\ n \in DOMAIN FileTable(t2)
    /\ Len(extracted.value) = 2
    /\ extracted.value[1].name = extracted.value[2].name

(***************************************************************************)
(* Claims about resolve_dependency_versions.                               *)
(***************************************************************************)
\* The places of the lockfile that hold a package named n.
LockedAt(n) == { j \in DOMAIN lockfile.package : lockfile.package[j].name = n }

\* The version of the last package named n, in lockfile order.
LastLockedVersion(n) ==
    lockfile.package[CHOOSE j \in LockedAt(n) : \A k \in LockedAt(n) : k <= j].version

\* C2: a requested name that the lockfile lists one or more times is resolved
\* to the version of the last of its entries in lockfile order, whatever the
\* order of the versions.
C2_LastListedVersion ==
    resolved.tag = "Ok" =>
        \A i \in DOMAIN request :
            LockedAt(request[i].name) /= {} =>
                /\ \E k \in DOMAIN resolved.value : resolved.value[k].name = request[i].name
                /\ \A k \in DOMAIN resolved.value :
                     resolved.value[k].name = request[i].name
                         => resolved.value[k].version = LastLockedVersion(request[i].name)

\* A name locked at 1.0.75 and then at 1.0.68 was resolved to 1.0.68.
C2_Witness ==
    /\ resolved.tag = "Ok"
    /\ \E j, k \in DOMAIN lockfile.package :
         /\ j < k
         /\ lockfile.package[j].name = lockfile.package[k].name
         /\ SemverLess(lockfile.package[k].version, lockfile.package[j].version)
         /\ LastLockedVersion(lockfile.package[k].name) = lockfile.package[k].version
         /\ \E i \in DOMAIN resolved.value :
              resolved.value[i] = [name |-> lockfile.package[k].name,
                                   version |-> lockfile.package[k].version]

\* C3: the resolved collection holds at most one entry per requested name.
C3_OneEntryPerName ==
    resolved.tag = "Ok" =>
        \A i, j \in DOMAIN resolved.value :
            resolved.value[i].name = resolved.value[j].name => i = j

\* The request entries whose name the lockfile does not list.
Unmatched == { i \in DOMAIN request : LockedAt(request[i].name) = {} }

\* C4: with a readable, well-formed lockfile the resolution is Ok; a requested
\* name that is not locked is absent from the result, every requested name that
\* is locked is present, and the result is shorter than the request by the
\* number of unmatched request entries.
C4_UnmatchedOmitted ==
    (lockfile.status = "ok" /\ resolved /= Pending) =>
        /\ resolved.tag = "Ok"
        /\ { resolved.value[k].name : k \in DOMAIN resolved.value }
               = { request[i].name : i \in (DOMAIN request) \ Unmatched }
        /\ Len(resolved.value) = Len(request) - Cardinality(Unmatched)

\* A request for a locked and for an unlocked name was resolved to one entry.
C4_Witness ==
    /\ resolved.tag = "Ok"
    /\ Len(request) = 2
    /\ Cardinality(Unmatched) = 1
    /\ Len(resolved.value) = 1


\* C21: resolve_dependency_versions returns an error and no collection when
\* the lockfile does not exist (not found) and when it cannot be read or
\* parsed, for every request, the empty one included; the existence of the
\* path is tested before anything is read.
C21_BadLockfileIsError ==
    /\ resolved /= Pending =>
          /\ lockfile.status = "absent" => resolved = Err("NotFound") /\ lockOps = <<"exists">>
          /\ lockfile.status = "unreadable" => resolved = Err("Read")
          /\ lockfile.status = "malformed" => resolved = Err("Parse")
          /\ resolved.tag = "Ok" => lockfile.status = "ok"
    /\ \A i \in DOMAIN lockOps :
          lockOps[i] = "read" => \E j \in 1..(i - 1) : lockOps[j] = "exists"

\* The call with the empty request on a lockfile that does not parse returned
\* the error after the file was found and read.
C21_Witness ==
    /\ lockfile.status = "malformed"
    /\ request = <<>>
    /\ resolved.tag = "Err"
    /\ lockOps = <<"exists", "read", "parse">>


(***************************************************************************)
(* Claims about the failures of resolve_registry_path.                     *)
(***************************************************************************)
\* The errors whose message says that something was not found.
NotFoundKinds == {"NoHome", "NotFound", "NoRegistry"}

\* The registry directory was listed and holds no directory, or none whose
\* modification time can be read.
NoUsableSubdirectory ==
    /\ home
    /\ registry.status = "ok"
    /\ \A i \in DOMAIN registry.entries : ~StampedDir(i)

\* An Ok result is an immediate subdirectory of the registry directory.
OkIsSubdirectory ==
    regResult.tag = "Ok" =>
        \E i \in DOMAIN registry.entries :
            /\ registry.entries[i].kind = "dir"
            /\ regResult.value = Join(RegistryDir, registry.entries[i].name)

\* C22 as stated: resolve_registry_path fails with a not-found error when
\* there is no home directory, when the registry directory does not exist,
\* when it has no subdirectory and when no subdirectory has readable metadata;
\* an Ok result is an immediate subdirectory of the registry directory.
C22_NotFoundInEveryCase ==
    /\ (regResult /= Pending
        /\ (~home \/ registry.status = "absent" \/ NoUsableSubdirectory))
          => (regResult.tag = "Err" /\ regResult.kind \in NotFoundKinds)
    /\ OkIsSubdirectory

\* C22 amended: the same, for a registry directory all of whose entries can be
\* read; an entry that cannot be read makes the call fail with that I/O error,
\* whatever else the directory holds.
C22_NotFoundUnlessEntryFails ==
    /\ (regResult /= Pending
        /\ (~home \/ registry.status = "absent"
            \/ (NoUsableSubdirectory
                /\ \A i \in DOMAIN registry.entries : registry.entries[i].kind /= "ioerr")))
          => (regResult.tag = "Err" /\ regResult.kind \in NotFoundKinds)
    /\ (regResult /= Pending /\ home /\ registry.status = "ok"
        /\ \E i \in DOMAIN registry.entries : registry.entries[i].kind = "ioerr")
          => regResult = Err("Io")
    /\ OkIsSubdirectory

\* The registry directory holds a file and a directory whose metadata cannot
\* be read, and the call failed for want of a registry directory.
C22_Witness ==
    /\ home
    /\ Len(registry.entries) = 2
    /\ registry.entries[1].kind = "file"
    /\ registry.entries[2].kind = "dir" /\ registry.entries[2].mtime = None
    /\ regResult = Err("NoRegistry")


(***************************************************************************)
(* Claims about Dependency values.                                         *)
(***************************************************************************)
\* The Dependency values held by the collections of the state.
DependenciesHeld ==
    Range(deps)
    \cup (IF IsSome(rebuilt) THEN Range(rebuilt[1].coll) ELSE {})
    \cup (IF extracted.tag = "Ok" THEN Range(extracted.value) ELSE {})
    \cup (IF resolved.tag = "Ok" THEN Range(resolved.value) ELSE {})

\* C23: every Dependency has a non-empty name, whether it was built by
\* Dependency::new, by extraction, by from_map or by lockfile resolution.
C23_NameNonEmpty == \A d \in DependenciesHeld : d.name /= ""


(***************************************************************************)
(* Claims about calculate_directory_tokens.                                *)
(***************************************************************************)
\* The regular files directly in the directory that pass the filter.
PassingFiles ==
    { i \in DOMAIN tokDir.entries :
        /\ tokDir.entries[i].content.kind = "file"
        /\ tokFilter /= None => tokDir.entries[i].name.ext = tokFilter }

\* C24: the result of calculate_directory_tokens holds one record for each
\* regular file directly in the directory that passes the filter, so that the
\* number of records is the number of such files, and no record of a
\* subdirectory.
C24_OneRecordPerFile ==
    tokResult.tag = "Ok" =>
        /\ Cardinality(DOMAIN tokResult.value) = Cardinality(PassingFiles)
        /\ \A k \in DOMAIN tokResult.value :
              \E i \in PassingFiles : tokResult.value[k].path = FileNameOf(tokDir.entries[i].name)


(***************************************************************************)
(* Claims about collect_dependencies.                                      *)
(***************************************************************************)
\* The names that are keys of a runtime, dev or build table of a listed manifest.
DeclaredIn(file) ==
    UNION { DOMAIN file.sections[t] : t \in TableNames \cap DOMAIN file.sections }

DeclaredNames == UNION { DeclaredIn(manifestFiles[i]) : i \in DOMAIN manifestFiles }

\* C25: collect_dependencies returns exactly the set of names that are keys of
\* the runtime, dev or build table of one or more of the listed manifests.
C25_ExactlyDeclaredNames == gathered.tag = "Ok" => gathered.value = DeclaredNames

\* Two manifests declare serde, one of them in its build table, and anyhow is
\* declared in a dev table only; both names were returned.
C25_Witness ==
    /\ Len(manifestFiles) = 2
    /\ gathered = Ok({"anyhow", "serde"})
    /\ DOMAIN manifestFiles[1].sections = {"dependencies"}
    /\ "serde" \in DOMAIN manifestFiles[1].sections["dependencies"]
    /\ DOMAIN manifestFiles[2].sections = {"dev-dependencies", "build-dependencies"}
    /\ "serde" \in DOMAIN manifestFiles[2].sections["build-dependencies"]
    /\ "anyhow" \in DOMAIN manifestFiles[2].sections["dev-dependencies"]


(***************************************************************************)
(* Claims about the order and the termination of the scan.                 *)
(***************************************************************************)
\* The entries named Cargo.toml that a depth-first walk of directory d meets,
\* in the order it meets them: the entries of a directory in enumeration order,
\* a subdirectory walked at the moment it is enumerated.
RECURSIVE WalkOrder(_)
WalkOrder(d) ==
    LET RECURSIVE Over(_)
        Over(entries) ==
            IF entries = <<>> THEN <<>>
            ELSE LET n == entries[1]
                 IN IF IsSkippedHidden(n) THEN Over(Tail(entries))
                    ELSE (IF IsCargoToml(n) THEN <<n>> ELSE <<>>)
                         \o (IF IsDir(n) THEN WalkOrder(n) ELSE <<>>)
                         \o Over(Tail(entries))
    IN Over(Children(d))

\* C26: the paths find_cargo_toml_files returns are in traversal order,
\* depth-first with each directory's entries in enumeration order; the list is
\* not sorted and holds each discovered path once.
C26_TraversalOrder ==
    scanResult.tag = "Ok" =>
        /\ scanResult.value = WalkOrder(0)
        /\ \A i, j \in DOMAIN scanResult.value :
              scanResult.value[i] = scanResult.value[j] => i = j

\* The manifest inside the first-enumerated subdirectory was returned before
\* the manifest of root that is enumerated after the subdirectory.
C26_Witness ==
    /\ scanResult.tag = "Ok"
    /\ Len(scanResult.value) = 2
    /\ tree[scanResult.value[1]].parent /= 0
    /\ tree[scanResult.value[2]].parent = 0
    /\ scanResult.value[1] > scanResult.value[2]

\* C27: on every finite tree the scan terminates: the call returns Ok or an
\* error, and no directory is read more than once on the way.
C27_Terminates ==
    /\ <>(scanPc = "done" /\ scanResult.tag \in {"Ok", "Err"})
    /\ [](\A i, j \in DOMAIN reads : reads[i] = reads[j] => i = j)

\* The scan of a tree with nested directories has returned its list after
\* reading root and both directories.
C27_Witness ==
    /\ scanPc = "done"
    /\ scanResult.tag = "Ok"
    /\ Len(reads) = 3
    /\ \E n \in DOMAIN tree : tree[n].parent /= 0 /\ tree[n].dir


(***************************************************************************)
(* Claims about lookup by name.                                            *)
(***************************************************************************)
\* The places of collection c that hold an entry named n.
PlacesOf(c, n) == { i \in DOMAIN c : c[i].name = n }

\* C28: get(name) and get_version(name) return the earliest-added entry of
\* that name and its version, while to_map()[name] holds the version of the
\* latest; get(name) is Some exactly when contains_name(name) is true.
C28_FirstMatchLookup ==
    IsSome(looked) =>
        LET c == looked[1].src
            at == PlacesOf(c, looked[1].name)
        IN /\ IsSome(looked[1].get) <=> looked[1].contains_name
           /\ looked[1].contains_name <=> at /= {}
           /\ at = {} => looked[1].get_version = None
           /\ \A i \in at :
                 /\ (\A j \in at : i <= j) =>
                       /\ looked[1].get = Some(c[i])
                       /\ looked[1].get_version = Some(c[i].version)
                 /\ (\A j \in at : j <= i) => looked[1].to_map[looked[1].name] = c[i].version

\* A name held with two different versions was looked up: get_version gave
\* the first version and to_map the last.
C28_Witness ==
    /\ IsSome(looked)
    /\ Len(looked[1].src) = 2
    /\ looked[1].src[1].name = looked[1].name
    /\ looked[1].src[2].name = looked[1].name
    /\ looked[1].src[1].version /= looked[1].src[2].version
    /\ looked[1].get_version = Some(looked[1].src[1].version)
    /\ looked[1].to_map[looked[1].name] = looked[1].src[2].version


(***************************************************************************)
(* Claims about what the resolution depends on.                            *)
(***************************************************************************)
\* The names of a collection, in order.
NamesOf(c) == [i \in DOMAIN c |-> c[i].name]

\* The requests that ask for the same names in the same order as the request
\* of the state, with any version texts.
SameNameRequests ==
    { r \in SeqsUpTo(RequestPool, MaxRequest) : NamesOf(r) = NamesOf(request) }

\* C29: the result of resolve_dependency_versions depends on the lockfile and
\* on the requested names only: every request with the same sequence of names
\* gets the same result, whatever its version texts, and the resolved entries
\* stand in the order of their names in the request.
C29_VersionTextsIgnored ==
    resolved.tag = "Ok" =>
        /\ \A r \in SameNameRequests :
              ResolveAll(PackageVersions(lockfile.package), r) = resolved.value
        /\ NamesOf(resolved.value)
              = SelectSeq(NamesOf(request), LAMBDA n : LockedAt(n) /= {})

\* Two locked names were requested, one with a version requirement and one as
\* a workspace dependency, and both were resolved in the order of the request.
C29_Witness ==
    /\ resolved.tag = "Ok"
    /\ Len(request) = 2
    /\ request[1].version = "workspace"
    /\ request[2].version = "1.0"
    /\ request[1].name /= request[2].name
    /\ Len(resolved.value) = 2
    /\ resolved.value[1].name = request[1].name
    /\ Cardinality(SameNameRequests) = Cardinality(ReqVersions) * Cardinality(ReqVersions)


(***************************************************************************)
(* Claims about the order of the extracted entries.                        *)
(***************************************************************************)
\* The tables in the order extraction processes them.
TableOrder == <<"dependencies", "dev-dependencies", "build-dependencies">>

\* The place in TableOrder of the earliest table that declares name n.
EarliestTable(n) ==
    CHOOSE k \in DOMAIN TableOrder :
        /\ n \in DOMAIN FileTable(TableOrder[k])
        /\ \A j \in 1..(k - 1) : n \notin DOMAIN FileTable(TableOrder[j])

\* C30: in the collection extract_dependency_info returns, the entries of the
\* runtime table come first, then those of the dev table, then those of the
\* build table, so that get(name) returns the version declared in the earliest
\* of the three tables that declares the name.
C30_TablesInOrder ==
    extracted.tag = "Ok" =>
        /\ Len(extracted.value)
              = Cardinality(DOMAIN FileTable("dependencies"))
                + Cardinality(DOMAIN FileTable("dev-dependencies"))
                + Cardinality(DOMAIN FileTable("build-dependencies"))
        /\ \A t \in TableNames :
              { extracted.value[i].name : i \in Segment(t) } = DOMAIN FileTable(t)
        /\ \A n \in DepNames :
              (\E t \in TableNames : n \in DOMAIN FileTable(t)) =>
                  Get(extracted.value, n)
                      = Some([name |-> n,
                              version |->
                                  ExpectedVersion(FileTable(TableOrder[EarliestTable(n)])[n])])

\* A name is declared in the dev table and, with another version, in the
\* build table, and not in the runtime table; get returns the version of the
\* dev table.
C30_Witness ==
    /\ extracted.tag = "Ok"
    /\ Len(extracted.value) = 2
    /\ \E n \in DepNames :
          /\ n \notin DOMAIN FileTable("dependencies")
          /\ n \in DOMAIN FileTable("dev-dependencies")
          /\ n \in DOMAIN FileTable("build-dependencies")
          /\ extracted.value[1].name = n
          /\ extracted.value[2].name = n
          /\ extracted.value[1].version /= extracted.value[2].version
          /\ Get(extracted.value, n) = Some(extracted.value[1])
          /\ extracted.value[1].version = ExpectedVersion(FileTable("dev-dependencies")[n])

====
